---- MODULE Spec2Model ----
(***************************************************************************)
(* A model of utils/ElfView.cpp: the ELF view (attach / detach / queries), *)
(* the parser InitElfInfo, the GNU and SysV symbol hash lookups and the    *)
(* GOT/PLT relocation scan.                                                *)
(*                                                                         *)
(* Integers wider than TLC's are kept as tuples of 16-bit limbs, most      *)
(* significant first: a uint32_t is <<hi, lo>>, a uint64_t is              *)
(* <<l3, l2, l1, l0>>.  All arithmetic on them is modulo 2^32 / 2^64.      *)
(***************************************************************************)
EXTENDS Integers, Sequences, FiniteSets, TLC

VARIABLES
    mMemory,    \* ElfView::mMemory: the attached byte range (an image record)
    mIsLoaded,  \* ElfView::mIsLoaded
    mElfInfo,   \* ElfView::mElfInfo: the descriptor, or NullInfo
    prior,      \* history: the soname of the descriptor the last attach replaced
    op,         \* the last public operation called on the view
    arg,        \* its argument (a name), <<>> when it takes none
    ret,        \* its outcome: [status, val]
    name,       \* elf_*_hash: the name being hashed
    i,          \* elf_*_hash: the loop index
    h_sysv,     \* elf_sysv_hash: h
    h_gnu       \* elf_gnu_hash: h

vars == <<mMemory, mIsLoaded, mElfInfo, prior, op, arg, ret, name, i, h_sysv, h_gnu>>
viewVars == <<mMemory, mIsLoaded, mElfInfo, prior, op, arg, ret>>
hashVars == <<name, i, h_sysv, h_gnu>>

(***************************************************************************)
(* Fixed-width unsigned arithmetic.                                        *)
(***************************************************************************)
Limb == 256 * 256

\* uint32_t from a small natural
U32(n) == <<(n \div Limb) % Limb, n % Limb>>

\* uint64_t from a small natural
U64(n) == <<0, 0, (n \div Limb) % Limb, n % Limb>>

U64Max == <<Limb - 1, Limb - 1, Limb - 1, Limb - 1>>
U64Zero == <<0, 0, 0, 0>>

\* a - b modulo 2^64, limb by limb with borrow
U64Sub(a, b) ==
    LET d0 == a[4] - b[4]
        b0 == IF d0 < 0 THEN 1 ELSE 0
        d1 == a[3] - b[3] - b0
        b1 == IF d1 < 0 THEN 1 ELSE 0
        d2 == a[2] - b[2] - b1
        b2 == IF d2 < 0 THEN 1 ELSE 0
        d3 == a[1] - b[1] - b2
    IN  <<(d3 + Limb) % Limb, (d2 + Limb) % Limb, (d1 + Limb) % Limb, (d0 + Limb) % Limb>>

\* a + b modulo 2^64
U64Add(a, b) ==
    LET s0 == a[4] + b[4]
        s1 == a[3] + b[3] + (s0 \div Limb)
        s2 == a[2] + b[2] + (s1 \div Limb)
        s3 == a[1] + b[1] + (s2 \div Limb)
    IN  <<s3 % Limb, s2 % Limb, s1 % Limb, s0 % Limb>>

\* a < b on uint64_t
U64Lt(a, b) ==
    \/ a[1] < b[1]
    \/ a[1] = b[1] /\ a[2] < b[2]
    \/ a[1] = b[1] /\ a[2] = b[2] /\ a[3] < b[3]
    \/ a[1] = b[1] /\ a[2] = b[2] /\ a[3] = b[3] /\ a[4] < b[4]

\* bitwise exclusive or of two naturals
RECURSIVE XorN(_, _)
XorN(a, b) ==
    IF a = 0 THEN b
    ELSE IF b = 0 THEN a
    ELSE (((a % 2) + (b % 2)) % 2) + 2 * XorN(a \div 2, b \div 2)

\* 2^k
RECURSIVE Pow2(_)
Pow2(k) == IF k = 0 THEN 1 ELSE 2 * Pow2(k - 1)

\* bit k (0 = lowest) of a uint32_t; bits above 31 are 0
U32Bit(h, k) ==
    IF k < 16 THEN (h[2] \div Pow2(k)) % 2
    ELSE IF k < 32 THEN (h[1] \div Pow2(k - 16)) % 2
    ELSE 0

\* h % n for a uint32_t h and a small n > 0
U32Mod(h, n) == (((h[1] % n) * (Limb % n)) + h[2]) % n

\* (h >> s) % 2^w, the w bits of h from bit s up
RECURSIVE U32Field(_, _, _)
U32Field(h, s, w) ==
    IF w = 0 THEN 0 ELSE U32Bit(h, s) + 2 * U32Field(h, s + 1, w - 1)

\* h | 1
U32Or1(h) == <<h[1], h[2] - (h[2] % 2) + 1>>

(***************************************************************************)
(* The hash functions.                                                     *)
(***************************************************************************)
\* one round of elf_sysv_hash's loop on byte c
SysvRound(h, c) ==
    LET lo1 == h[2] * 16 + c
        hi1 == (h[1] * 16 + (lo1 \div Limb)) % Limb     \* h = (h << 4) + c
        lo2 == lo1 % Limb
        g == hi1 \div 4096                              \* g = h & 0xf0000000, its top nibble
    IN  <<hi1 % 4096,                                   \* h ^= g
          XorN(lo2, g * 16)>>                           \* h ^= g >> 24

\* the round with h << 5 subtracted from, not added to, twice h: 31 h + c
GnuRoundTimes31(h, c) ==
    LET lo1 == h[2] * 31 + c
    IN  <<(h[1] * 31 + (lo1 \div Limb)) % Limb, lo1 % Limb>>

\* one round of elf_gnu_hash's loop on byte c: h += (h << 5) + c
GnuRound(h, c) ==
    LET lo1 == h[2] * 33 + c
    IN  <<(h[1] * 33 + (lo1 \div Limb)) % Limb, lo1 % Limb>>

RECURSIVE SysvFrom(_, _, _)
SysvFrom(h, s, k) == IF k > Len(s) THEN h ELSE SysvFrom(SysvRound(h, s[k]), s, k + 1)

RECURSIVE GnuFrom(_, _, _)
GnuFrom(h, s, k) == IF k > Len(s) THEN h ELSE GnuFrom(GnuRound(h, s[k]), s, k + 1)

elf_sysv_hash(s) == SysvFrom(U32(0), s, 1)
elf_gnu_hash(s) == GnuFrom(U32(5381), s, 1)

(***************************************************************************)
(* Constants of <elf.h> and of ElfView.h used by the code.                 *)
(***************************************************************************)
kNone == 0
kElf32 == 1
kElf64 == 2

PT_LOAD == 1
PT_DYNAMIC == 2
PT_PHDR == 6

DT_NULL == 0
DT_PLTRELSZ == 2
DT_STRTAB == 5
DT_RELA == 7
DT_RELASZ == 8
DT_SONAME == 14
DT_REL == 17
DT_RELSZ == 18
DT_PLTREL == 20
DT_JMPREL == 23

SHT_PROGBITS == 1
SHT_SYMTAB == 2
SHT_STRTAB == 3
SHT_HASH == 5
SHT_DYNSYM == 11
SHT_GNU_HASH == 1879048182

R_ARM_ABS32 == 2
R_ARM_GLOB_DAT == 21
R_ARM_JUMP_SLOT == 22
R_386_32 == 1
R_386_GLOB_DAT == 6
R_386_JMP_SLOT == 7
R_AARCH64_ABS64 == 257
R_AARCH64_GLOB_DAT == 1025
R_AARCH64_JUMP_SLOT == 1026
R_X86_64_64 == 1
R_X86_64_GLOB_DAT == 6
R_X86_64_JUMP_SLOT == 7

\* sizeof of the records of each class
SizeofDyn(c) == IF c = kElf32 THEN 8 ELSE 16
SizeofSym(c) == IF c = kElf32 THEN 16 ELSE 24
SizeofRel(c) == IF c = kElf32 THEN 8 ELSE 16
SizeofRela(c) == IF c = kElf32 THEN 12 ELSE 24

\* a null pointer; every other pointer is a byte offset from file.data()
NULL == -1

(***************************************************************************)
(* Names: strings are sequences of bytes, without the terminating NUL.     *)
(***************************************************************************)
N_printf == <<112, 114, 105, 110, 116, 102>>  \* "printf"
N_foo == <<102, 111, 111>>  \* "foo"
N_malloc == <<109, 97, 108, 108, 111, 99>>  \* "malloc"
N_free == <<102, 114, 101, 101>>  \* "free"
N_Z3foo == <<95, 90, 51, 102, 111, 111>>  \* "_Z3foo"
N_Z3bar == <<95, 90, 51, 98, 97, 114>>  \* "_Z3bar"
N_Z3f == <<95, 90, 51, 102>>  \* "_Z3f"
N_dbg == <<115, 111, 109, 101, 95, 100, 101, 98, 117, 103, 95, 111, 110, 108, 121, 95, 115, 121, 109>>  \* "some_debug_only_sym"
N_missing == <<109, 105, 115, 115, 105, 110, 103>>  \* "missing"
N_loc == <<108, 111, 99, 97, 108, 95, 102, 110>>  \* "local_fn"
N_soname == <<108, 105, 98, 102, 111, 111, 46, 115, 111>>  \* "libfoo.so"
S_dynstr == <<46, 100, 121, 110, 115, 116, 114>>  \* ".dynstr"
S_strtab == <<46, 115, 116, 114, 116, 97, 98>>  \* ".strtab"
S_symtab == <<46, 115, 121, 109, 116, 97, 98>>  \* ".symtab"
S_dynsym == <<46, 100, 121, 110, 115, 121, 109>>  \* ".dynsym"
S_hash == <<46, 104, 97, 115, 104>>  \* ".hash"
S_gnu_hash == <<46, 103, 110, 117, 46, 104, 97, 115, 104>>  \* ".gnu.hash"
S_gnu_debugdata == <<46, 103, 110, 117, 95, 100, 101, 98, 117, 103, 100, 97, 116, 97>>  \* ".gnu_debugdata"
S_shstrtab == <<46, 115, 104, 115, 116, 114, 116, 97, 98>>  \* ".shstrtab"
S_rel == <<46, 114, 101, 108>>  \* ".rel"
S_dynamic == <<46, 100, 121, 110, 97, 109, 105, 99>>  \* ".dynamic"
N_f == <<102>>  \* "f"
Empty == <<>>

\* the names the queries are called with
QueryNames ==
    {Empty, N_f, N_printf, N_foo, N_malloc, N_free, N_Z3foo, N_Z3bar, N_Z3f, N_dbg, N_missing,
     N_loc}

\* s begins with p
IsPrefix(p, s) == Len(p) <= Len(s) /\ SubSeq(s, 1, Len(p)) = p

\* strncmp(s, p.data(), p.size()) == 0, for a NUL-terminated s and a p without NUL
StrNCmpEq(s, p) == Len(s) >= Len(p) /\ \A k \in 1..Len(p) : s[k] = p[k]

(***************************************************************************)
(* The attached byte range.  An image is                                   *)
(*   size     its length in bytes                                          *)
(*   magic    whether its first four bytes are ELFMAG                      *)
(*   class    byte 4 (EI_CLASS)                                            *)
(*   ehdr     the header fields the parser reads                           *)
(*   mem      what lies at each byte offset that a table starts at: an     *)
(*            object [kind, val]; val is the array found there, which      *)
(*            runs on into whatever bytes follow the table                 *)
(* and p, the parameters it was built from.                                *)
(***************************************************************************)
SetMin(S) == CHOOSE x \in S : \A y \in S : x <= y
SetMax(S) == CHOOSE x \in S : \A y \in S : x >= y

\* symbol number k (from 0) of a symbol array
SymAt(syms, k) == syms[k + 1]

\* the dynamic symbols: imports first, then the definitions the GNU hash covers
DynSyms(bias) ==
    << [st_name |-> 0,  st_value |-> 0,           st_shndx |-> 0],
       [st_name |-> 1,  st_value |-> 0,           st_shndx |-> 0],     \* malloc
       [st_name |-> 8,  st_value |-> 0,           st_shndx |-> 0],     \* free
       [st_name |-> 13, st_value |-> bias + 564,  st_shndx |-> 7],     \* foo
       [st_name |-> 17, st_value |-> bias + 1280, st_shndx |-> 7],     \* _Z3foo
       [st_name |-> 24, st_value |-> bias + 1296, st_shndx |-> 7] >>   \* _Z3bar

DynStr ==
    (0 :> Empty) @@ (1 :> N_malloc) @@ (8 :> N_free) @@ (13 :> N_foo)
        @@ (17 :> N_Z3foo) @@ (24 :> N_Z3bar) @@ (31 :> N_soname)

GnuSymOffset == Len(SelectSeq(DynSyms(0), LAMBDA s : s.st_shndx = 0))

\* a GNU hash section for DynSyms, as a linker lays it out
GnuHashTable(class, full) ==
    LET syms == DynSyms(0)
        n == Len(syms)
        nb == 3
        bsize == 2
        shift == IF class = kElf32 THEN 5 ELSE 6
        bits == IF class = kElf32 THEN 32 ELSE 64
        w == IF class = kElf32 THEN 5 ELSE 6
        H(k) == elf_gnu_hash(DynStr[SymAt(syms, k).st_name])
        B(k) == U32Mod(H(k), nb)
        Word(k) == ((H(k)[1] * (Limb \div bits)) + (H(k)[2] \div bits)) % bsize
        covered == GnuSymOffset..(n - 1)
        bloom == [x \in 1..bsize |->
                    IF full THEN 0..(bits - 1)
                    ELSE UNION {{U32Field(H(k), 0, w), U32Field(H(k), shift, w)} :
                                    k \in {c \in covered : Word(c) = x - 1}}]
        buckets == [x \in 1..nb |->
                    LET S == {k \in covered : B(k) = x - 1}
                    IN  IF S = {} THEN 0 ELSE SetMin(S)]
        chain == [x \in 1..(n - GnuSymOffset) |->
                    LET k == GnuSymOffset + x - 1
                        last == k = n - 1 \/ B(k + 1) # B(k)
                    IN  <<H(k)[1], H(k)[2] - (H(k)[2] % 2) + (IF last THEN 1 ELSE 0)>>]
    IN  [hdr |-> <<nb, GnuSymOffset, bsize, shift>>, bloom |-> bloom, words |-> buckets \o chain]

\* a SysV hash section for DynSyms: words nbucket, nchain, bucket[], chain[]
SysvHashTable ==
    LET syms == DynSyms(0)
        n == Len(syms)
        nb == 3
        B(k) == U32Mod(elf_sysv_hash(DynStr[SymAt(syms, k).st_name]), nb)
        bucket == [x \in 1..nb |->
                    LET S == {k \in 1..(n - 1) : B(k) = x - 1}
                    IN  IF S = {} THEN 0 ELSE SetMax(S)]
        chain == [x \in 1..n |->
                    LET k == x - 1
                        S == {j \in 1..(n - 1) : j < k /\ B(j) = B(k)}
                    IN  IF k = 0 \/ S = {} THEN 0 ELSE SetMax(S)]
    IN  <<nb, n>> \o bucket \o chain

\* a SysV hash section whose chain never reaches index 0: every bucket
\* starts at symbol 1 and the chain runs 1, 2, ..., n - 1, 1, ...
SysvHashCycle ==
    LET n == Len(DynSyms(0))
        nb == 3
        bucket == [x \in 1..nb |-> 1]
        chain == [x \in 1..n |-> IF x = 1 THEN 0 ELSE IF x = n THEN 1 ELSE x]
    IN  <<nb, n>> \o bucket \o chain

\* a GNU hash section with the end mark, the lowest bit, of every chain word
\* cleared
WithoutEndMarks(tab) ==
    [tab EXCEPT !.words =
        [x \in 1..Len(tab.words) |->
            IF x <= tab.hdr[1] THEN tab.words[x]
            ELSE <<tab.words[x][1], tab.words[x][2] - (tab.words[x][2] % 2)>>]]

\* a GNU hash section whose bloom words are all ones and no chain of which
\* is marked as ended
GnuHashNoEnd(class) == WithoutEndMarks(GnuHashTable(class, TRUE))

\* the relocation types a linker emits for the image's machine
JumpSlotOf(class) == IF class = kElf32 THEN R_ARM_JUMP_SLOT ELSE R_AARCH64_JUMP_SLOT
GlobDatOf(class) == IF class = kElf32 THEN R_ARM_GLOB_DAT ELSE R_AARCH64_GLOB_DAT
AbsOf(class) == IF class = kElf32 THEN R_ARM_ABS32 ELSE R_AARCH64_ABS64
RelativeOf(class) == IF class = kElf32 THEN 23 ELSE 1027

\* .rel(a).plt: the table proper
RelPltTable(class, bias, variant) ==
    << [r_offset |-> bias + 8200, r_sym |-> 1, r_type |-> JumpSlotOf(class)],
       [r_offset |-> bias + 8208, r_sym |-> 2, r_type |-> JumpSlotOf(class)] >>
    \o (IF variant = "dupslot"
        THEN << [r_offset |-> bias + 8216, r_sym |-> 1, r_type |-> JumpSlotOf(class)] >>
        ELSE << >>)

\* the bytes that follow .rel(a).plt in the image, read as records of its shape
RelPltTail(class, bias, variant) ==
    IF variant = "tail"
    THEN << [r_offset |-> bias + 12032, r_sym |-> 3, r_type |-> JumpSlotOf(class)],
            [r_offset |-> 0, r_sym |-> 0, r_type |-> 0] >>
    ELSE << [r_offset |-> 0, r_sym |-> 0, r_type |-> 0],
            [r_offset |-> 0, r_sym |-> 0, r_type |-> 0] >>

\* .rel(a).dyn
RelDynTable(class, bias) ==
    << [r_offset |-> bias + 12288, r_sym |-> 0, r_type |-> RelativeOf(class)],
       [r_offset |-> bias + 12304, r_sym |-> 1, r_type |-> GlobDatOf(class)],
       [r_offset |-> bias + 12312, r_sym |-> 3, r_type |-> AbsOf(class)],
       [r_offset |-> bias + 12320, r_sym |-> 2, r_type |-> GlobDatOf(class)],
       [r_offset |-> bias + 12328, r_sym |-> 2, r_type |-> AbsOf(class)] >>

\* .symtab and .strtab of the outer image
SymTab(bias) ==
    << [st_name |-> 0,  st_value |-> 0,           st_shndx |-> 0],
       [st_name |-> 1,  st_value |-> bias + 1792, st_shndx |-> 7],     \* local_fn
       [st_name |-> 10, st_value |-> bias + 564,  st_shndx |-> 7] >>   \* foo
StrTab == (0 :> Empty) @@ (1 :> N_loc) @@ (10 :> N_foo)

\* .symtab and .strtab of the image inside .gnu_debugdata
DebugSymTab(bias) ==
    << [st_name |-> 0,  st_value |-> 0,           st_shndx |-> 0],
       [st_name |-> 1,  st_value |-> bias + 2748, st_shndx |-> 7],     \* some_debug_only_sym
       [st_name |-> 1,  st_value |-> bias + 3567, st_shndx |-> 7],     \* the same name again
       [st_name |-> 21, st_value |-> bias + 2457, st_shndx |-> 7] >>   \* local_fn
DebugStrTab == (0 :> Empty) @@ (1 :> N_dbg) @@ (21 :> N_loc)

ShStrTab ==
    (0 :> Empty) @@ (1 :> S_dynsym) @@ (9 :> S_dynstr) @@ (17 :> S_gnu_hash) @@ (27 :> S_hash)
        @@ (33 :> S_rel) @@ (38 :> S_dynamic) @@ (47 :> S_gnu_debugdata) @@ (62 :> S_symtab)
        @@ (70 :> S_strtab) @@ (78 :> S_shstrtab)

Shdr(nm, type, addr, offset, size) ==
    [sh_name |-> nm, sh_type |-> type, sh_addr |-> addr, sh_offset |-> offset, sh_size |-> size]

Phdr(type, offset, vaddr, memsz) ==
    [p_type |-> type, p_offset |-> offset, p_vaddr |-> vaddr, p_memsz |-> memsz]

Dyn(tag, val) == [d_tag |-> tag, d_val |-> val]

Obj(kind, val) == [kind |-> kind, val |-> val]

\* no objects at all
NoObjects == [a \in {} |-> Obj("none", << >>)]

MachineOf(class) == IF class = kElf32 THEN 40 ELSE 183

\* the image carried, XZ-compressed, in .gnu_debugdata
DebugImage(class, bias) ==
    [tag |-> "debug", p |-> [class |-> class, bias |-> bias],
     size |-> 2048, magic |-> TRUE, class |-> class,
     ehdr |-> [e_machine |-> MachineOf(class), e_phoff |-> 64, e_phnum |-> 1,
               e_shoff |-> 1024, e_shnum |-> 4, e_shstrndx |-> 3],
     mem |-> (0 :> Obj("ehdr", 0))
          @@ (64 :> Obj("phdr", << Phdr(PT_LOAD, 0, bias, 4096) >>))
          @@ (256 :> Obj("sym", DebugSymTab(bias)))
          @@ (512 :> Obj("str", DebugStrTab))
          @@ (768 :> Obj("str", ShStrTab))
          @@ (1024 :> Obj("shdr",
                << Shdr(0, 0, 0, 0, 0),
                   Shdr(62, SHT_SYMTAB, 0, 256, 4 * SizeofSym(class)),
                   Shdr(70, SHT_STRTAB, 0, 512, 30),
                   Shdr(78, SHT_STRTAB, 0, 768, 88) >>))]

\* a shared object built from parameters p:
\*   class   kElf32 (ARM) or kElf64 (AArch64)
\*   hash    "none", "sysv", "gnu", "both", or "bothfull" (GNU bloom words all ones)
\*   bias    p_vaddr of its first PT_LOAD
\*   flat    whether the sections outside the segments carry sh_addr = sh_offset
\*   rela    whether its relocation tables are Elf_Rela
\*   variant "plain", "dupslot" (two jump slots for malloc), "tail" (the bytes after
\*           the PLT relocations look like one more jump slot), "noload" (no
\*           PT_LOAD among the program headers), "twoload" (two PT_LOAD, the
\*           higher one first), "moved" (.hash lies at an sh_offset other than
\*           its sh_addr, .symtab has sh_addr 0), "wild" (DT_JMPREL points
\*           past the end of the range), "cycle" (the SysV chain never reaches
\*           0), "noend" (no GNU chain word has the end mark)
SharedObject(p) ==
    LET c == p.class
        na(off) == IF p.flat THEN off ELSE 0
        hasGnu == p.hash \in {"gnu", "both", "bothfull"}
        hasSysv == p.hash \in {"sysv", "both", "bothfull"}
        plt == RelPltTable(c, p.bias, p.variant)
        dyn == RelDynTable(c, p.bias)
        recsz == IF p.rela THEN SizeofRela(c) ELSE SizeofRel(c)
        moved == p.variant = "moved"
        hashOffset == IF moved THEN 7168 ELSE 5632
        dynamic ==
            << Dyn(DT_SONAME, 31), Dyn(DT_STRTAB, 5120),
               Dyn(DT_PLTREL, IF p.rela THEN DT_RELA ELSE DT_REL),
               Dyn(IF p.rela THEN DT_RELA ELSE DT_REL, 5888),
               Dyn(IF p.rela THEN DT_RELASZ ELSE DT_RELSZ, Len(dyn) * recsz),
               Dyn(DT_JMPREL, IF p.variant = "wild" THEN 65536 ELSE 6144),
               Dyn(DT_PLTRELSZ, Len(plt) * recsz),
               Dyn(DT_NULL, 0) >>
        segments ==
            << Phdr(PT_PHDR, 64, p.bias + 64, 168) >>
            \o (CASE p.variant = "noload" -> << >>
                  [] p.variant = "twoload" ->
                        << Phdr(PT_LOAD, 8192, p.bias + 8192, 8192),
                           Phdr(PT_LOAD, 0, p.bias, 8192) >>
                  [] OTHER -> << Phdr(PT_LOAD, p.bias, p.bias, 16384) >>)
            \o << Phdr(PT_DYNAMIC, 6400, 6400, Len(dynamic) * SizeofDyn(c)) >>
        sections ==
            << Shdr(0, 0, 0, 0, 0),
               Shdr(1, SHT_DYNSYM, 4608, 4608, Len(DynSyms(0)) * SizeofSym(c)),
               Shdr(9, SHT_STRTAB, 5120, 5120, 41) >>
            \o (IF hasGnu THEN << Shdr(17, SHT_GNU_HASH, 5376, 5376, 64) >> ELSE << >>)
            \o (IF hasSysv THEN << Shdr(27, SHT_HASH, 5632, hashOffset, 44) >> ELSE << >>)
            \o << Shdr(38, 6, 6400, 6400, Len(dynamic) * SizeofDyn(c)),
                  Shdr(47, SHT_PROGBITS, na(8192), 8192, 512),
                  Shdr(62, SHT_SYMTAB, IF moved THEN 0 ELSE na(9216), 9216,
                       Len(SymTab(0)) * SizeofSym(c)),
                  Shdr(70, SHT_STRTAB, na(9728), 9728, 14),
                  Shdr(78, SHT_STRTAB, na(9984), 9984, 88) >>
    IN  [tag |-> "so", p |-> p,
         size |-> 12288, magic |-> TRUE, class |-> c,
         ehdr |-> [e_machine |-> MachineOf(c), e_phoff |-> 64, e_phnum |-> Len(segments),
                   e_shoff |-> 10240, e_shnum |-> Len(sections),
                   e_shstrndx |-> Len(sections) - 1],
         mem |-> (0 :> Obj("ehdr", 0))
              @@ (64 :> Obj("phdr", segments))
              @@ (4608 :> Obj("sym", DynSyms(p.bias)))
              @@ (5120 :> Obj("str", DynStr))
              @@ (5376 :> Obj("gnuhash", IF p.variant = "noend" THEN GnuHashNoEnd(c)
                                         ELSE GnuHashTable(c, p.hash = "bothfull")))
              @@ (5632 :> Obj("hash", IF p.variant = "cycle" THEN SysvHashCycle
                                      ELSE SysvHashTable))
              @@ (IF moved THEN 7168 :> Obj("hash", SysvHashTable) ELSE NoObjects)
              @@ (5888 :> Obj(IF p.rela THEN "rela" ELSE "rel", dyn))
              @@ (6144 :> Obj(IF p.rela THEN "rela" ELSE "rel",
                              plt \o RelPltTail(c, p.bias, p.variant)))
              @@ (6400 :> Obj("dyn", dynamic))
              @@ (8192 :> Obj("xz", [magic |-> TRUE, ok |-> TRUE,
                                     out |-> DebugImage(c, p.bias)]))
              @@ (9216 :> Obj("sym", SymTab(p.bias)))
              @@ (9728 :> Obj("str", StrTab))
              @@ (9984 :> Obj("str", ShStrTab))
              @@ (10240 :> Obj("shdr", sections))]

\* a relocatable object: an ELF file without program headers (e_phoff = 0),
\* with .symtab and .strtab only
RelocatableObject(class) ==
    [tag |-> "obj",
     p |-> [class |-> class, hash |-> "none", bias |-> 0, flat |-> TRUE, rela |-> FALSE,
            variant |-> "plain"],
     size |-> 2048, magic |-> TRUE, class |-> class,
     ehdr |-> [e_machine |-> MachineOf(class), e_phoff |-> 0, e_phnum |-> 0,
               e_shoff |-> 1024, e_shnum |-> 4, e_shstrndx |-> 3],
     mem |-> (0 :> Obj("ehdr", 0))
          @@ (256 :> Obj("sym", SymTab(0)))
          @@ (512 :> Obj("str", StrTab))
          @@ (768 :> Obj("str", ShStrTab))
          @@ (1024 :> Obj("shdr",
                << Shdr(0, 0, 0, 0, 0),
                   Shdr(62, SHT_SYMTAB, 256, 256, Len(SymTab(0)) * SizeofSym(class)),
                   Shdr(70, SHT_STRTAB, 512, 512, 14),
                   Shdr(78, SHT_STRTAB, 768, 768, 88) >>))]

\* byte ranges that are no ELF image
Blob(tag, size, magic, class) ==
    [tag |-> tag,
     p |-> [class |-> class, hash |-> "none", bias |-> 0, flat |-> TRUE, rela |-> FALSE,
            variant |-> "plain"],
     size |-> size, magic |-> magic, class |-> class,
     ehdr |-> [e_machine |-> 0, e_phoff |-> 0, e_phnum |-> 0,
               e_shoff |-> 0, e_shnum |-> 0, e_shstrndx |-> 0],
     mem |-> (0 :> Obj("ehdr", 0))]

NoMemory == Blob("empty", 0, FALSE, 0)

Params ==
    [class : {kElf32, kElf64}, hash : {"none", "sysv", "gnu", "both", "bothfull"},
     bias : {0, 4096}, flat : {TRUE}, rela : BOOLEAN, variant : {"plain"}]
    \cup
    [class : {kElf32, kElf64}, hash : {"both"},
     bias : {0, 4096}, flat : {FALSE}, rela : {TRUE}, variant : {"plain"}]
    \cup
    [class : {kElf32, kElf64}, hash : {"both"},
     bias : {4096}, flat : {TRUE}, rela : BOOLEAN, variant : {"dupslot", "tail"}]
    \cup
    [class : {kElf32, kElf64}, hash : {"both"},
     bias : {4096}, flat : {TRUE}, rela : {FALSE}, variant : {"noload", "twoload", "moved"}]

\* the parameters of the objects whose tables are not what a linker writes
MalformedParams ==
    [class : {kElf32, kElf64}, hash : {"both"},
     bias : {4096}, flat : {TRUE}, rela : {FALSE}, variant : {"wild"}]
    \cup
    [class : {kElf32, kElf64}, hash : {"sysv"},
     bias : {4096}, flat : {TRUE}, rela : {FALSE}, variant : {"cycle"}]
    \cup
    [class : {kElf32, kElf64}, hash : {"bothfull"},
     bias : {4096}, flat : {TRUE}, rela : {FALSE}, variant : {"noend"}]

Malformed == {SharedObject(p) : p \in MalformedParams}

\* the ranges that are no shared object
Others ==
    {RelocatableObject(kElf32), RelocatableObject(kElf64)}
    \cup {NoMemory, Blob("short", 20, TRUE, kElf64), Blob("badmagic", 4096, FALSE, kElf64),
          Blob("class3", 4096, TRUE, 3), Blob("class0", 64, TRUE, 0)}

Images == {SharedObject(p) : p \in Params} \cup Others

\* a span: what the view keeps of a range is a reference to it, not its bytes
SpanOf(image) == [tag |-> image.tag, p |-> image.p]

\* the spans of Images and of Malformed
Spans == {[tag |-> "so", p |-> p] : p \in Params} \cup {SpanOf(image) : image \in Others}

MalformedSpans == {[tag |-> "so", p |-> p] : p \in MalformedParams}

\* the range a span refers to
RangeOf ==
    [span \in Spans \cup MalformedSpans |->
        IF span.tag = "so" THEN SharedObject(span.p)
        ELSE CHOOSE image \in Others : SpanOf(image) = span]

(***************************************************************************)
(* Reading the attached range.                                             *)
(***************************************************************************)
\* what lies at file.data() + a
At(file, a) == IF a \in DOMAIN file.mem THEN file.mem[a] ELSE Obj("none", << >>)

\* whether file.data() + a is the start of an array of the given kind with at
\* least n elements
Readable(file, a, kind, n) == At(file, a).kind = kind /\ n <= Len(At(file, a).val)

\* the bytes of the ELF header read as a string: they spell no section name
HeaderStr == <<127, 69, 76, 70>>

StrReadable(file, ptr, off) ==
    \/ At(file, ptr).kind = "ehdr"
    \/ At(file, ptr).kind = "str" /\ off \in DOMAIN At(file, ptr).val

\* the NUL-terminated string at file.data() + ptr + off
StrAt(file, ptr, off) ==
    IF At(file, ptr).kind = "str" /\ off \in DOMAIN At(file, ptr).val
    THEN At(file, ptr).val[off]
    ELSE HeaderStr

(***************************************************************************)
(* class ElfView::ElfInfo                                                  *)
(***************************************************************************)
NoSpan == [ptr |-> NULL, size |-> 0]
NoSymbols == [x \in {} |-> 0]

\* a default-constructed ElfInfo; ub records that filling it read outside
\* the tables the image holds
NewElfInfo ==
    [elfClass |-> kNone, machine |-> 0, soname |-> Empty,
     loadBias |-> U64Zero, loadedSize |-> U64Zero,
     sysv_hash |-> NULL, sysv_hash_nbucket |-> 0, sysv_hash_nchain |-> 0,
     sysv_hash_bucket |-> NULL, sysv_hash_chain |-> NULL,
     gnu_hash |-> NULL, symtab |-> NULL, symtab_size |-> 0, strtab |-> NULL,
     dynsym |-> NULL, dynsym_size |-> 0, dynstr |-> NULL, use_rela |-> FALSE,
     reldyn |-> NULL, reldyn_size |-> 0, reladyn |-> NULL, reladyn_size |-> 0,
     relplt |-> NULL, relplt_size |-> 0, miniDebugInfo |-> NoSpan,
     compressedDebugSymbols |-> NoSymbols, ub |-> FALSE]

\* mElfInfo == nullptr
NullInfo == [null |-> TRUE]

(***************************************************************************)
(* InitElfInfo                                                             *)
(***************************************************************************)
\* the program header loop: st = [first, last, hasDynamic, dynamic]
RECURSIVE PhdrLoop(_, _, _)
PhdrLoop(phdrs, k, st) ==
    IF k > Len(phdrs) THEN st
    ELSE LET phdr == phdrs[k]
             end == U64Add(U64(phdr.p_vaddr), U64(phdr.p_memsz))
             st1 == IF phdr.p_type = PT_PHDR THEN st
                    ELSE IF phdr.p_type = PT_DYNAMIC
                    THEN [st EXCEPT !.dynamic = phdr, !.hasDynamic = TRUE]
                    ELSE IF phdr.p_type = PT_LOAD
                    THEN [st EXCEPT
                            !.first = IF U64Lt(U64(phdr.p_vaddr), st.first)
                                      THEN U64(phdr.p_vaddr) ELSE st.first,
                            !.last = IF U64Lt(st.last, end) THEN end ELSE st.last]
                    ELSE st
         IN  PhdrLoop(phdrs, k + 1, st1)

\* one dynamic entry: st = [info, sonameOffset, strtab]
DynCase(c, dyn, st) ==
    CASE dyn.d_tag = DT_SONAME -> [st EXCEPT !.sonameOffset = dyn.d_val]
      [] dyn.d_tag = DT_STRTAB -> [st EXCEPT !.strtab = dyn.d_val]
      [] dyn.d_tag = DT_PLTREL -> [st EXCEPT !.info.use_rela = (dyn.d_val = DT_RELA)]
      [] dyn.d_tag = DT_REL -> [st EXCEPT !.info.reldyn = dyn.d_val]
      [] dyn.d_tag = DT_RELA -> [st EXCEPT !.info.reladyn = dyn.d_val]
      [] dyn.d_tag = DT_RELSZ -> [st EXCEPT !.info.reldyn_size = dyn.d_val \div SizeofRel(c)]
      [] dyn.d_tag = DT_RELASZ -> [st EXCEPT !.info.reladyn_size = dyn.d_val \div SizeofRela(c)]
      [] dyn.d_tag = DT_JMPREL -> [st EXCEPT !.info.relplt = dyn.d_val]
      [] dyn.d_tag = DT_PLTRELSZ -> [st EXCEPT !.info.relplt_size = dyn.d_val \div SizeofRel(c)]
      [] OTHER -> st

RECURSIVE DynLoop(_, _, _, _, _)
DynLoop(c, dyns, k, n, st) ==
    IF k > n THEN st ELSE DynLoop(c, dyns, k + 1, n, DynCase(c, dyns[k], st))

\* the walk through the program headers and the dynamic section
ProgramHeaderWalk(c, file, info, isLoaded) ==
    LET phoff == file.ehdr.e_phoff
        phnum == file.ehdr.e_phnum
    IN  IF phoff = 0 THEN info
        ELSE IF ~Readable(file, phoff, "phdr", phnum) THEN [info EXCEPT !.ub = TRUE]
        ELSE
        LET ph == PhdrLoop(SubSeq(At(file, phoff).val, 1, phnum), 1,
                           [first |-> U64Max, last |-> U64Zero,
                            hasDynamic |-> FALSE, dynamic |-> Phdr(0, 0, 0, 0)])
            info1 == [info EXCEPT !.loadBias = ph.first,
                                  !.loadedSize = U64Sub(ph.last, ph.first)]
        IN  IF ~ph.hasDynamic THEN info1
            ELSE
            LET n == ph.dynamic.p_memsz \div SizeofDyn(c)
                at == IF isLoaded THEN ph.dynamic.p_vaddr ELSE ph.dynamic.p_offset
            IN  IF ~Readable(file, at, "dyn", n) THEN [info1 EXCEPT !.ub = TRUE]
                ELSE
                LET st == DynLoop(c, At(file, at).val, 1, n,
                                  [info |-> info1, sonameOffset |-> 0, strtab |-> NULL])
                IN  IF st.sonameOffset # 0 /\ st.strtab # NULL
                    THEN IF StrReadable(file, st.strtab, st.sonameOffset)
                         THEN [st.info EXCEPT
                                 !.soname = StrAt(file, st.strtab, st.sonameOffset)]
                         ELSE [st.info EXCEPT !.ub = TRUE]
                    ELSE st.info

\* one section header
ShdrCase(c, file, shdr, nm, info, isLoaded) ==
    LET at == IF isLoaded THEN shdr.sh_addr ELSE shdr.sh_offset
    IN  CASE shdr.sh_type = SHT_STRTAB ->
                IF nm = S_dynstr THEN [info EXCEPT !.dynstr = at]
                ELSE IF nm = S_strtab THEN [info EXCEPT !.strtab = at]
                ELSE info
          [] shdr.sh_type = SHT_SYMTAB ->
                IF nm = S_symtab
                THEN [info EXCEPT !.symtab = shdr.sh_offset,
                                  !.symtab_size = shdr.sh_size \div SizeofSym(c)]
                ELSE info
          [] shdr.sh_type = SHT_DYNSYM ->
                [info EXCEPT !.dynsym = at, !.dynsym_size = shdr.sh_size \div SizeofSym(c)]
          [] shdr.sh_type = SHT_HASH ->
                IF ~Readable(file, shdr.sh_offset, "hash", 2)
                THEN [info EXCEPT !.sysv_hash = at, !.ub = TRUE]
                ELSE LET rawdata == At(file, shdr.sh_offset).val
                     IN  [info EXCEPT !.sysv_hash = at,
                                      !.sysv_hash_nbucket = rawdata[1],
                                      !.sysv_hash_nchain = rawdata[2],
                                      !.sysv_hash_bucket = <<shdr.sh_offset, 2>>,
                                      !.sysv_hash_chain = <<shdr.sh_offset, 2 + rawdata[1]>>]
          [] shdr.sh_type = SHT_GNU_HASH -> [info EXCEPT !.gnu_hash = at]
          [] shdr.sh_type = SHT_PROGBITS ->
                IF nm = S_gnu_debugdata /\ ~isLoaded
                THEN [info EXCEPT !.miniDebugInfo = [ptr |-> shdr.sh_offset,
                                                     size |-> shdr.sh_size]]
                ELSE info
          [] OTHER -> info

RECURSIVE ShdrLoop(_, _, _, _, _, _, _)
ShdrLoop(c, file, shdrs, strs, k, info, isLoaded) ==
    IF k > Len(shdrs) THEN info
    ELSE IF ~StrReadable(file, strs, shdrs[k].sh_name) THEN [info EXCEPT !.ub = TRUE]
    ELSE ShdrLoop(c, file, shdrs, strs, k + 1,
                  ShdrCase(c, file, shdrs[k], StrAt(file, strs, shdrs[k].sh_name),
                           info, isLoaded),
                  isLoaded)

\* the walk through the section headers
SectionHeaderWalk(c, file, info, isLoaded) ==
    LET shoff == file.ehdr.e_shoff
        shnum == file.ehdr.e_shnum
    IN  IF shoff = 0 THEN info
        ELSE IF ~Readable(file, shoff, "shdr", shnum)
                \/ ~Readable(file, shoff, "shdr", file.ehdr.e_shstrndx + 1)
        THEN [info EXCEPT !.ub = TRUE]
        ELSE LET all == At(file, shoff).val
                 shstrtab == all[file.ehdr.e_shstrndx + 1]
                 strs == IF isLoaded THEN shstrtab.sh_addr ELSE shstrtab.sh_offset
             IN  ShdrLoop(c, file, SubSeq(all, 1, shnum), strs, 1, info, isLoaded)

InitElfInfo(c, file, info, isLoaded) ==
    SectionHeaderWalk(c, file,
        ProgramHeaderWalk(c, file, [info EXCEPT !.machine = file.ehdr.e_machine], isLoaded),
        isLoaded)

(***************************************************************************)
(* The mini debug info                                                     *)
(***************************************************************************)
\* util::DecodeXzData: the decompressed bytes and whether decoding succeeded
DecodeXzData(file, input) ==
    LET blob == At(file, input.ptr).val
    IN  [isSuccess |-> blob.ok, decompressed |-> IF blob.ok THEN blob.out ELSE NoMemory]

\* the loop with operator[] in place of emplace: the last value of a name is kept
RECURSIVE DebugSymbolLoopKeepLast(_, _, _, _, _)
DebugSymbolLoopKeepLast(input, embedded, k, map, bad) ==
    IF k > embedded.symtab_size THEN [map |-> map, ub |-> bad]
    ELSE IF ~Readable(input, embedded.symtab, "sym", k)
            \/ ~StrReadable(input, embedded.strtab, At(input, embedded.symtab).val[k].st_name)
    THEN [map |-> map, ub |-> TRUE]
    ELSE LET sym == At(input, embedded.symtab).val[k]
             symname == StrAt(input, embedded.strtab, sym.st_name)
         IN  DebugSymbolLoopKeepLast(input, embedded, k + 1,
                IF symname = Empty THEN map
                ELSE [x \in (DOMAIN map) \cup {symname} |->
                        IF x = symname THEN sym.st_value ELSE map[x]],
                bad)

\* the symbol loop of ParseDebugSymbol: emplace keeps the first value of a name
RECURSIVE DebugSymbolLoop(_, _, _, _, _)
DebugSymbolLoop(input, embedded, k, map, bad) ==
    IF k > embedded.symtab_size THEN [map |-> map, ub |-> bad]
    ELSE IF ~Readable(input, embedded.symtab, "sym", k)
            \/ ~StrReadable(input, embedded.strtab, At(input, embedded.symtab).val[k].st_name)
    THEN [map |-> map, ub |-> TRUE]
    ELSE LET sym == At(input, embedded.symtab).val[k]
             symname == StrAt(input, embedded.strtab, sym.st_name)
         IN  DebugSymbolLoop(input, embedded, k + 1,
                IF symname = Empty \/ symname \in DOMAIN map THEN map
                ELSE [x \in (DOMAIN map) \cup {symname} |->
                        IF x = symname THEN sym.st_value ELSE map[x]],
                bad)

\* ElfView::ParseDebugSymbol on the decompressed bytes
ParseDebugSymbol(input, info) ==
    IF input.size < 64 \/ ~input.magic THEN info
    ELSE LET type == input.class
             fresh == [NewElfInfo EXCEPT !.elfClass = type]
             embedded == IF type \in {kElf32, kElf64}
                         THEN InitElfInfo(type, input, fresh, FALSE)
                         ELSE fresh
         IN  IF embedded.elfClass \in {kElf32, kElf64}
             THEN LET r == DebugSymbolLoop(input, embedded, 1,
                                           info.compressedDebugSymbols, embedded.ub)
                  IN  [info EXCEPT !.compressedDebugSymbols = r.map,
                                   !.ub = info.ub \/ r.ub]
             ELSE info

\* ElfView::ParseMiniDebugInfo on the .gnu_debugdata span
ParseMiniDebugInfo(file, input, info) ==
    IF input.size < 6 \/ At(file, input.ptr).kind # "xz" \/ ~At(file, input.ptr).val.magic
    THEN info
    ELSE LET r == DecodeXzData(file, input)
         IN  IF r.decompressed.size = 0 \/ ~r.isSuccess THEN info
             ELSE ParseDebugSymbol(r.decompressed, info)

(***************************************************************************)
(* Attach                                                                  *)
(***************************************************************************)
\* elfInfo.elfClass = static_cast<ElfClass>(mMemory[4])
ClassOfByte(b) == b

\* the descriptor AttachFileMemMapping leaves in mElfInfo, made the one it
\* starts from
AttachedFileInfo(fileMap, made) ==
    IF fileMap.size < 64 \/ ~fileMap.magic THEN made
    ELSE LET type == ClassOfByte(fileMap.class)
             fresh == [made EXCEPT !.elfClass = type]
             elfInfo == IF type \in {kElf32, kElf64}
                        THEN InitElfInfo(type, fileMap, fresh, FALSE)
                        ELSE fresh
         IN  IF elfInfo.miniDebugInfo.size # 0
             THEN ParseMiniDebugInfo(fileMap, elfInfo.miniDebugInfo, elfInfo)
             ELSE elfInfo

\* the descriptor AttachLoadedMemoryView leaves in mElfInfo, made the one it
\* starts from
AttachedLoadedInfo(memory, made) ==
    IF memory.size < 64 \/ ~memory.magic THEN made
    ELSE LET type == ClassOfByte(memory.class)
             fresh == [made EXCEPT !.elfClass = type]
         IN  IF type \in {kElf32, kElf64}
             THEN InitElfInfo(type, memory, fresh, TRUE)
             ELSE fresh

\* the descriptors the attaches make of the ranges: each starts from
\* std::make_unique<ElfInfo>(), a default-constructed descriptor; parsed once
FileInfoOf ==
    [fileMap \in Spans \cup MalformedSpans |-> AttachedFileInfo(RangeOf[fileMap], NewElfInfo)]
LoadedInfoOf ==
    [memory \in Spans \cup MalformedSpans |-> AttachedLoadedInfo(RangeOf[memory], NewElfInfo)]

\* the descriptor the view held filled again from the range, where a new one
\* should be made
FileInfoRefilled(fileMap, old) ==
    IF old = NullInfo THEN FileInfoOf[fileMap]
    ELSE AttachedFileInfo(RangeOf[fileMap], old)

\* what AttachFileMemMapping(fileMap) leaves in mElfInfo: the new descriptor;
\* old, the one the view held, is destroyed by the assignment
FileInfoAfter(fileMap, old) == FileInfoOf[fileMap]

\* what AttachLoadedMemoryView(memory) leaves in mElfInfo
LoadedInfoAfter(memory, old) == LoadedInfoOf[memory]

(***************************************************************************)
(* Symbol lookup.  A lookup yields [found, index, ub, hang]: ub when it    *)
(* reads outside the tables the image holds, hang when a chain walk never  *)
(* ends.                                                                   *)
(***************************************************************************)
Found(ix) == [found |-> TRUE, index |-> ix, ub |-> FALSE, hang |-> FALSE]
NotFound == [found |-> FALSE, index |-> 0, ub |-> FALSE, hang |-> FALSE]
Undefined == [found |-> FALSE, index |-> 0, ub |-> TRUE, hang |-> FALSE]
Hang == [found |-> FALSE, index |-> 0, ub |-> FALSE, hang |-> TRUE]

\* whether symbol ix of the table at syms, and its name in strs, can be read
SymReadable(file, syms, strs, ix) ==
    /\ Readable(file, syms, "sym", ix + 1)
    /\ StrReadable(file, strs, SymAt(At(file, syms).val, ix).st_name)

\* strs + syms[ix].st_name
SymName(file, syms, strs, ix) == StrAt(file, strs, SymAt(At(file, syms).val, ix).st_name)

\* the linear search of a symbol table for a name, from entry ix on
RECURSIVE LinearScan(_, _, _, _, _, _)
LinearScan(file, syms, strs, size, symbol, ix) ==
    IF ix >= size THEN NotFound
    ELSE IF ~SymReadable(file, syms, strs, ix) THEN Undefined
    ELSE IF StrNCmpEq(SymName(file, syms, strs, ix), symbol)
            /\ Len(SymName(file, syms, strs, ix)) = Len(symbol)
    THEN Found(ix)
    ELSE LinearScan(file, syms, strs, size, symbol, ix + 1)

\* the GNU chain loop from symix on
RECURSIVE GnuChainLoop(_, _, _, _, _, _)
GnuChainLoop(file, info, tab, symbol, symbol_hash, symix) ==
    LET nbuckets == tab.hdr[1]
        symoffset == tab.hdr[2]
        at == nbuckets + (symix - symoffset) + 1
    IN  IF ~SymReadable(file, info.dynsym, info.dynstr, symix) \/ at > Len(tab.words)
        THEN Undefined
        ELSE LET hash == tab.words[at]
             IN  IF U32Or1(symbol_hash) = U32Or1(hash)
                    /\ symbol = SymName(file, info.dynsym, info.dynstr, symix)
                 THEN Found(symix)
                 ELSE IF hash[2] % 2 = 1 THEN NotFound
                 ELSE GnuChainLoop(file, info, tab, symbol, symbol_hash, symix + 1)

\* the GNU hash path: [done, r], done when the function returns from inside it
GnuHashPath(c, file, info, symbol) ==
    IF At(file, info.gnu_hash).kind # "gnuhash" THEN [done |-> TRUE, r |-> Undefined]
    ELSE
    LET tab == At(file, info.gnu_hash).val
        bits == IF c = kElf32 THEN 32 ELSE 64
        w == IF c = kElf32 THEN 5 ELSE 6
        symbol_hash == elf_gnu_hash(symbol)
        nbuckets == tab.hdr[1]
        symoffset == tab.hdr[2]
        bloom_size == tab.hdr[3]
        bloom_shift == tab.hdr[4]
    IN  IF bloom_size = 0 \/ nbuckets = 0 \/ bloom_size # Len(tab.bloom)
           \/ nbuckets > Len(tab.words) \/ bloom_shift >= 32
        THEN [done |-> TRUE, r |-> Undefined]
        ELSE
        LET word == tab.bloom[(((symbol_hash[1] * (Limb \div bits))
                                + (symbol_hash[2] \div bits)) % bloom_size) + 1]
            mask == {U32Field(symbol_hash, 0, w), U32Field(symbol_hash, bloom_shift, w)}
            symix == tab.words[U32Mod(symbol_hash, nbuckets) + 1]
        IN  IF ~(mask \subseteq word) THEN [done |-> TRUE, r |-> NotFound]
            ELSE IF symix < symoffset THEN [done |-> TRUE, r |-> NotFound]
            ELSE LET r == GnuChainLoop(file, info, tab, symbol, symbol_hash, symix)
                 IN  [done |-> r.found \/ r.ub, r |-> r]

\* word k of the uint32_t array at ptr = <<table, first word>>
HashWordReadable(file, ptr, k) == Readable(file, ptr[1], "hash", ptr[2] + k + 1)
HashWord(file, ptr, k) == At(file, ptr[1]).val[ptr[2] + k + 1]

\* the do-while loop of the SysV path; fuel counts the rounds a walk that
\* ends can take
RECURSIVE SysvChainLoop(_, _, _, _, _)
SysvChainLoop(file, info, symbol, index, fuel) ==
    IF fuel = 0 THEN Hang
    ELSE IF ~HashWordReadable(file, info.sysv_hash_chain, index) THEN Undefined
    ELSE LET next == HashWord(file, info.sysv_hash_chain, index)
         IN  IF ~SymReadable(file, info.dynsym, info.dynstr, next) THEN Undefined
             ELSE IF symbol = SymName(file, info.dynsym, info.dynstr, next) THEN Found(next)
             ELSE IF next = 0 THEN NotFound
             ELSE SysvChainLoop(file, info, symbol, next, fuel - 1)

\* the SysV hash path
SysvHashPath(file, info, symbol) ==
    IF info.sysv_hash_nbucket = 0 THEN Undefined
    ELSE
    LET hash == elf_sysv_hash(symbol)
        slot == U32Mod(hash, info.sysv_hash_nbucket)
    IN  IF ~HashWordReadable(file, info.sysv_hash_bucket, slot) THEN Undefined
        ELSE LET index == HashWord(file, info.sysv_hash_bucket, slot)
             IN  IF ~SymReadable(file, info.dynsym, info.dynstr, index) THEN Undefined
                 ELSE IF symbol = SymName(file, info.dynsym, info.dynstr, index)
                 THEN Found(index)
                 ELSE SysvChainLoop(file, info, symbol, index,
                                    Len(At(file, info.sysv_hash_chain[1]).val) + 1)

\* GetDynamicSymbolIndexImpl<c>
GetDynamicSymbolIndexImpl(c, file, info, symbol, searchForUndefined) ==
    IF info.elfClass = kNone \/ file.size = 0 THEN NotFound
    ELSE IF info.dynsym = NULL \/ info.dynstr = NULL THEN NotFound
    ELSE
    LET linear == LinearScan(file, info.dynsym, info.dynstr, info.dynsym_size, symbol, 0)
        sysv == IF info.sysv_hash # NULL THEN SysvHashPath(file, info, symbol) ELSE NotFound
        afterGnu == IF sysv.found \/ sysv.ub \/ sysv.hang THEN sysv ELSE linear
    IN  IF searchForUndefined THEN linear
        ELSE IF info.gnu_hash # NULL
        THEN LET g == GnuHashPath(c, file, info, symbol)
             IN  IF g.done THEN g.r ELSE afterGnu
        ELSE afterGnu

\* GetNonDynamicSymbolImpl<c>
GetNonDynamicSymbolImpl(c, file, info, symbol) ==
    IF info.elfClass = kNone \/ file.size = 0 THEN NotFound
    ELSE IF info.symtab # NULL /\ info.strtab # NULL
    THEN LinearScan(file, info.symtab, info.strtab, info.symtab_size, symbol, 0)
    ELSE NotFound

(***************************************************************************)
(* The queries.  A query yields the set of outcomes [status, val] it can   *)
(* have: one outcome where the code is deterministic; where it has         *)
(* undefined behaviour, a crash or any value.                              *)
(***************************************************************************)
Ok(v) == [status |-> "ok", val |-> v]
\* a call that does not return carries no value: val is a filler of the query's type
Crash(v) == [status |-> "crash", val |-> v]
NoReturn(v) == [status |-> "hang", val |-> v]

\* the outcomes of undefined behaviour in a query whose values are drawn from vals
UndefinedBehaviour(vals) == {Crash(CHOOSE v \in vals : TRUE)} \cup {Ok(v) : v \in vals}

SomeU64 == {U64Zero, U64(4096), U64Max}

\* ElfView::IsValid
IsValid(file, info) == file.size # 0 /\ info # NullInfo /\ info.elfClass # kNone

\* ElfView::GetPointerSize
GetPointerSize(file, info) ==
    IF ~IsValid(file, info) THEN 0
    ELSE IF info.elfClass = kElf32 THEN 4
    ELSE IF info.elfClass = kElf64 THEN 8
    ELSE 0

\* ElfView::GetArchitecture
GetArchitecture(file, info) == IF ~IsValid(file, info) THEN 0 ELSE info.machine

\* ElfView::GetLoadBias
GetLoadBias(file, info) ==
    IF info = NullInfo THEN UndefinedBehaviour(SomeU64) ELSE {Ok(info.loadBias)}

\* ElfView::GetLoadedSize
GetLoadedSize(file, info) ==
    IF info = NullInfo THEN UndefinedBehaviour(SomeU64) ELSE {Ok(info.loadedSize)}

\* ElfView::GetSoname
GetSoname(file, info) ==
    IF info = NullInfo THEN UndefinedBehaviour({Empty, N_soname}) ELSE {Ok(info.soname)}

\* the return with the load bias forgotten
OffsetOfRaw(file, info, syms, r) ==
    Ok(U64(SymAt(At(file, syms).val, r.index).st_value))

\* the outcome of a return of sym->st_value - elfInfo.loadBias after lookup r
OffsetOf(file, info, syms, r) ==
    Ok(U64Sub(U64(SymAt(At(file, syms).val, r.index).st_value), info.loadBias))

\* the outcome of a lookup that did not return a symbol
Stuck(r) == IF r.hang THEN {NoReturn(U64Zero)} ELSE UndefinedBehaviour(SomeU64)

\* ElfView::GetSymbolOffset
GetSymbolOffset(file, info, symbol) ==
    IF symbol = Empty THEN {Ok(U64Zero)}
    ELSE IF info = NullInfo THEN UndefinedBehaviour(SomeU64)
    ELSE
    LET c == info.elfClass
        known == c \in {kElf32, kElf64}
        dyn == IF known THEN GetDynamicSymbolIndexImpl(c, file, info, symbol, FALSE)
               ELSE NotFound
        non == IF known /\ info.symtab # NULL /\ info.strtab # NULL
               THEN GetNonDynamicSymbolImpl(c, file, info, symbol) ELSE NotFound
    IN  IF dyn.found THEN {OffsetOf(file, info, info.dynsym, dyn)}
        ELSE IF dyn.ub \/ dyn.hang THEN Stuck(dyn)
        ELSE IF non.found THEN {OffsetOf(file, info, info.symtab, non)}
        ELSE IF non.ub THEN Stuck(non)
        ELSE IF symbol \in DOMAIN info.compressedDebugSymbols
        THEN {Ok(U64Sub(U64(info.compressedDebugSymbols[symbol]), info.loadBias))}
        ELSE {Ok(U64Zero)}

\* the search with the whole name compared, not its first bytes
RECURSIVE PrefixScanWholeName(_, _, _, _, _, _)
PrefixScanWholeName(file, syms, strs, size, symbolPrefix, ix) ==
    IF ix >= size THEN NotFound
    ELSE IF ~SymReadable(file, syms, strs, ix) THEN Undefined
    ELSE IF SymName(file, syms, strs, ix) = symbolPrefix THEN Found(ix)
    ELSE PrefixScanWholeName(file, syms, strs, size, symbolPrefix, ix + 1)

\* the linear search of a symbol table for a name beginning with a prefix
RECURSIVE PrefixScan(_, _, _, _, _, _)
PrefixScan(file, syms, strs, size, symbolPrefix, ix) ==
    IF ix >= size THEN NotFound
    ELSE IF ~SymReadable(file, syms, strs, ix) THEN Undefined
    ELSE IF StrNCmpEq(SymName(file, syms, strs, ix), symbolPrefix) THEN Found(ix)
    ELSE PrefixScan(file, syms, strs, size, symbolPrefix, ix + 1)

\* GetFirstSymbolOffsetWithPrefixImpl<c>: [table, r], the table r.index is an index of
GetFirstSymbolOffsetWithPrefixImpl(c, file, info, symbolPrefix) ==
    LET dyn == IF info.dynsym # NULL /\ info.dynstr # NULL
               THEN PrefixScan(file, info.dynsym, info.dynstr, info.dynsym_size,
                               symbolPrefix, 0)
               ELSE NotFound
        non == IF info.symtab # NULL /\ info.strtab # NULL
               THEN PrefixScan(file, info.symtab, info.strtab, info.symtab_size,
                               symbolPrefix, 0)
               ELSE NotFound
    IN  IF dyn.found \/ dyn.ub THEN [table |-> info.dynsym, r |-> dyn]
        ELSE [table |-> info.symtab, r |-> non]

\* ElfView::GetFirstSymbolOffsetWithPrefix; the order in which the loop meets the
\* entries of the unordered map is not fixed
GetFirstSymbolOffsetWithPrefix(file, info, symbolPrefix) ==
    IF symbolPrefix = Empty \/ ~IsValid(file, info) THEN {Ok(U64Zero)}
    ELSE
    LET c == info.elfClass
        known == c \in {kElf32, kElf64}
        t == IF known THEN GetFirstSymbolOffsetWithPrefixImpl(c, file, info, symbolPrefix)
             ELSE [table |-> NULL, r |-> NotFound]
        keys == {key \in DOMAIN info.compressedDebugSymbols : IsPrefix(symbolPrefix, key)}
    IN  IF t.r.found THEN {OffsetOf(file, info, t.table, t.r)}
        ELSE IF t.r.ub THEN Stuck(t.r)
        ELSE IF keys # {}
        THEN {Ok(U64Sub(U64(info.compressedDebugSymbols[key]), info.loadBias)) : key \in keys}
        ELSE {Ok(U64Zero)}

(***************************************************************************)
(* The GOT/PLT scan                                                        *)
(***************************************************************************)
\* the test with the ARM and AArch64 types left out
IsJumpSlotX86Only(c, type) ==
    IF c = kElf32 THEN type % 256 = R_386_JMP_SLOT ELSE type = R_X86_64_JUMP_SLOT

IsJumpSlot(c, type) ==
    IF c = kElf32 THEN type % 256 \in {R_ARM_JUMP_SLOT, R_386_JMP_SLOT}
    ELSE type \in {R_AARCH64_JUMP_SLOT, R_X86_64_JUMP_SLOT}

IsDataReloc(c, type) ==
    IF c = kElf32
    THEN type % 256 \in {R_ARM_ABS32, R_ARM_GLOB_DAT, R_386_32, R_386_GLOB_DAT}
    ELSE type \in {R_AARCH64_ABS64, R_AARCH64_GLOB_DAT, R_X86_64_64, R_X86_64_GLOB_DAT}

\* the record shape all the relocation loops of one call read
RelKind(info) == IF info.use_rela THEN "rela" ELSE "rel"

\* uint64_t(rel.r_offset) - elfInfo.loadBias
GotOffset(info, rel) == U64Sub(U64(rel.r_offset), info.loadBias)

\* the loop over relplt without its break: every match is collected
RECURSIVE PltLoopNoBreak(_, _, _, _, _)
PltLoopNoBreak(c, file, info, symidx, k) ==
    IF k >= info.relplt_size THEN [result |-> << >>, ub |-> FALSE]
    ELSE IF ~Readable(file, info.relplt, RelKind(info), k + 1)
    THEN [result |-> << >>, ub |-> TRUE]
    ELSE LET rel == At(file, info.relplt).val[k + 1]
             rest == PltLoopNoBreak(c, file, info, symidx, k + 1)
         IN  IF rel.r_sym = symidx /\ IsJumpSlot(c, rel.r_type)
             THEN [result |-> << GotOffset(info, rel) >> \o rest.result, ub |-> rest.ub]
             ELSE rest

\* the loop over relplt, which stops at the first match: [result, ub]
RECURSIVE PltLoop(_, _, _, _, _)
PltLoop(c, file, info, symidx, k) ==
    IF k >= info.relplt_size THEN [result |-> << >>, ub |-> FALSE]
    ELSE IF ~Readable(file, info.relplt, RelKind(info), k + 1)
    THEN [result |-> << >>, ub |-> TRUE]
    ELSE LET rel == At(file, info.relplt).val[k + 1]
         IN  IF rel.r_sym = symidx /\ IsJumpSlot(c, rel.r_type)
             THEN [result |-> << GotOffset(info, rel) >>, ub |-> FALSE]
             ELSE PltLoop(c, file, info, symidx, k + 1)

\* the loop over reldyn or reladyn, which collects every match
RECURSIVE DataLoop(_, _, _, _, _, _, _)
DataLoop(c, file, info, table, size, symidx, k) ==
    IF k >= size THEN [result |-> << >>, ub |-> FALSE]
    ELSE IF ~Readable(file, table, RelKind(info), k + 1)
    THEN [result |-> << >>, ub |-> TRUE]
    ELSE LET rel == At(file, table).val[k + 1]
             rest == DataLoop(c, file, info, table, size, symidx, k + 1)
         IN  IF rel.r_sym = symidx /\ IsDataReloc(c, rel.r_type)
             THEN [result |-> << GotOffset(info, rel) >> \o rest.result, ub |-> rest.ub]
             ELSE rest

SomeOffsets == {<< >>, << U64Zero >>, << U64Max, U64Zero >>}

\* ElfView::GetSymbolGotOffset
GetSymbolGotOffset(file, info, symbol) ==
    IF symbol = Empty THEN {Ok(<< >>)}
    ELSE IF ~IsValid(file, info) THEN {Ok(<< >>)}
    ELSE
    LET elfClass == info.elfClass
        known == elfClass \in {kElf32, kElf64}
        dynSymIdx == IF known
                     THEN GetDynamicSymbolIndexImpl(elfClass, file, info, symbol, TRUE)
                     ELSE NotFound
    IN  IF dynSymIdx.ub THEN UndefinedBehaviour(SomeOffsets)
        ELSE IF ~dynSymIdx.found THEN {Ok(<< >>)}
        ELSE
        LET plt == PltLoop(elfClass, file, info, dynSymIdx.index, 0)
            data == IF info.use_rela
                    THEN DataLoop(elfClass, file, info, info.reladyn, info.reladyn_size,
                                  dynSymIdx.index, 0)
                    ELSE DataLoop(elfClass, file, info, info.reldyn, info.reldyn_size,
                                  dynSymIdx.index, 0)
        IN  IF plt.ub \/ data.ub THEN UndefinedBehaviour(SomeOffsets)
            ELSE {Ok(plt.result \o data.result)}

(***************************************************************************)
(* The view as a state machine: every public operation is one action; a    *)
(* query leaves its outcome in ret.                                        *)
(***************************************************************************)
\* the outcomes of a query on a view whose descriptor was filled by reads
\* outside the image's tables
Tainted(info) == info # NullInfo /\ info.ub

\* what a call leaves in ret: the status and the value of the outcome, the
\* value in the field of its C++ type
Ret(type, outcome) ==
    [status |-> outcome.status,
     bool |-> IF type = "bool" THEN outcome.val ELSE FALSE,
     int |-> IF type = "int" THEN outcome.val ELSE 0,
     uint64 |-> IF type = "uint64" THEN outcome.val ELSE U64Zero,
     string |-> IF type = "string" THEN outcome.val ELSE Empty,
     vector |-> IF type = "vector" THEN outcome.val ELSE << >>]

\* what a query whose outcomes are given can leave in ret
Returns(type, outcomes) == {Ret(type, outcome) : outcome \in outcomes}

\* a query changes nothing of the view
ViewUnchanged == UNCHANGED <<mMemory, mIsLoaded, mElfInfo, prior>> /\ UNCHANGED hashVars

\* ElfView::ElfView
ViewInit ==
    /\ mMemory = SpanOf(NoMemory)
    /\ mIsLoaded = FALSE
    /\ mElfInfo = NewElfInfo
    /\ prior = Empty
    /\ op = "ElfView"
    /\ arg = Empty
    /\ ret = Ret("void", Ok(0))

\* the soname of a descriptor about to be replaced
SonameOf(info) == IF info = NullInfo THEN Empty ELSE info.soname

\* ElfView::AttachFileMemMapping(fileMap)
AttachFile(fileMap) ==
    /\ op' = "AttachFileMemMapping"
    /\ arg' = Empty
    /\ ret' = Ret("void", Ok(0))
    /\ mMemory' = fileMap
    /\ mIsLoaded' = FALSE
    /\ mElfInfo' = FileInfoAfter(fileMap, mElfInfo)
    /\ prior' = SonameOf(mElfInfo)
    /\ UNCHANGED hashVars

\* ElfView::AttachLoadedMemoryView(memory)
AttachLoaded(memory) ==
    /\ op' = "AttachLoadedMemoryView"
    /\ arg' = Empty
    /\ ret' = Ret("void", Ok(0))
    /\ mMemory' = memory
    /\ mIsLoaded' = TRUE
    /\ mElfInfo' = LoadedInfoAfter(memory, mElfInfo)
    /\ prior' = SonameOf(mElfInfo)
    /\ UNCHANGED hashVars

AttachFileMemMapping == \E fileMap \in Spans : AttachFile(fileMap)

AttachLoadedMemoryView == \E memory \in Spans : AttachLoaded(memory)

\* the attaches of a range whose tables are not what a linker writes
AttachMalformedFile == \E fileMap \in MalformedSpans : AttachFile(fileMap)

AttachMalformedLoaded == \E memory \in MalformedSpans : AttachLoaded(memory)

Detach ==
    /\ op' = "Detach"
    /\ arg' = Empty
    /\ ret' = Ret("void", Ok(0))
    /\ mMemory' = SpanOf(NoMemory)
    /\ mElfInfo' = NullInfo
    /\ mIsLoaded' = FALSE
    /\ UNCHANGED prior
    /\ UNCHANGED hashVars

CallIsValid ==
    /\ op' = "IsValid"
    /\ arg' = Empty
    /\ ret' \in Returns("bool",
            IF Tainted(mElfInfo) THEN UndefinedBehaviour(BOOLEAN)
            ELSE {Ok(IsValid(RangeOf[mMemory], mElfInfo))})
    /\ ViewUnchanged

CallGetPointerSize ==
    /\ op' = "GetPointerSize"
    /\ arg' = Empty
    /\ ret' \in Returns("int",
            IF Tainted(mElfInfo) THEN UndefinedBehaviour({0, 4, 8})
            ELSE {Ok(GetPointerSize(RangeOf[mMemory], mElfInfo))})
    /\ ViewUnchanged

CallGetArchitecture ==
    /\ op' = "GetArchitecture"
    /\ arg' = Empty
    /\ ret' \in Returns("int",
            IF Tainted(mElfInfo) THEN UndefinedBehaviour({0, 40})
            ELSE {Ok(GetArchitecture(RangeOf[mMemory], mElfInfo))})
    /\ ViewUnchanged

CallGetLoadBias ==
    /\ op' = "GetLoadBias"
    /\ arg' = Empty
    /\ ret' \in Returns("uint64",
            IF Tainted(mElfInfo) THEN UndefinedBehaviour(SomeU64)
            ELSE GetLoadBias(RangeOf[mMemory], mElfInfo))
    /\ ViewUnchanged

CallGetLoadedSize ==
    /\ op' = "GetLoadedSize"
    /\ arg' = Empty
    /\ ret' \in Returns("uint64",
            IF Tainted(mElfInfo) THEN UndefinedBehaviour(SomeU64)
            ELSE GetLoadedSize(RangeOf[mMemory], mElfInfo))
    /\ ViewUnchanged

CallGetSoname ==
    /\ op' = "GetSoname"
    /\ arg' = Empty
    /\ ret' \in Returns("string",
            IF Tainted(mElfInfo) THEN UndefinedBehaviour({Empty, N_soname})
            ELSE GetSoname(RangeOf[mMemory], mElfInfo))
    /\ ViewUnchanged

CallGetSymbolOffset ==
    \E symbol \in QueryNames :
        /\ op' = "GetSymbolOffset"
        /\ arg' = symbol
        /\ ret' \in Returns("uint64",
                IF Tainted(mElfInfo) THEN UndefinedBehaviour(SomeU64)
                ELSE GetSymbolOffset(RangeOf[mMemory], mElfInfo, symbol))
        /\ ViewUnchanged

CallGetFirstSymbolOffsetWithPrefix ==
    \E symbolPrefix \in QueryNames :
        /\ op' = "GetFirstSymbolOffsetWithPrefix"
        /\ arg' = symbolPrefix
        /\ ret' \in Returns("uint64",
                IF Tainted(mElfInfo) THEN UndefinedBehaviour(SomeU64)
                ELSE GetFirstSymbolOffsetWithPrefix(RangeOf[mMemory], mElfInfo, symbolPrefix))
        /\ ViewUnchanged

CallGetSymbolGotOffset ==
    \E symbol \in QueryNames :
        /\ op' = "GetSymbolGotOffset"
        /\ arg' = symbol
        /\ ret' \in Returns("vector",
                IF Tainted(mElfInfo) THEN UndefinedBehaviour(SomeOffsets)
                ELSE GetSymbolGotOffset(RangeOf[mMemory], mElfInfo, symbol))
        /\ ViewUnchanged

(***************************************************************************)
(* The hash functions as loops: one action per round.                      *)
(***************************************************************************)
HashNames == QueryNames \cup {N_soname, S_gnu_debugdata, S_shstrtab}

HashStart ==
    /\ name \in HashNames
    /\ i = 0
    /\ h_sysv = U32(0)
    /\ h_gnu = U32(5381)

HashIdle ==
    /\ name = Empty
    /\ i = 0
    /\ h_sysv = U32(0)
    /\ h_gnu = U32(5381)

\* one round of both while loops
HashRound ==
    /\ i < Len(name)
    /\ h_sysv' = SysvRound(h_sysv, name[i + 1])
    /\ h_gnu' = GnuRound(h_gnu, name[i + 1])
    /\ i' = i + 1
    /\ UNCHANGED name
    /\ UNCHANGED viewVars

Init == ViewInit /\ HashIdle

Next ==
    \/ AttachFileMemMapping
    \/ AttachLoadedMemoryView
    \/ Detach
    \/ CallIsValid
    \/ CallGetPointerSize
    \/ CallGetArchitecture
    \/ CallGetLoadBias
    \/ CallGetLoadedSize
    \/ CallGetSoname
    \/ CallGetSymbolOffset
    \/ CallGetFirstSymbolOffsetWithPrefix
    \/ CallGetSymbolGotOffset

Spec == Init /\ [][Next]_vars

\* the view over the malformed ranges
MalformedNext ==
    \/ AttachMalformedFile
    \/ AttachMalformedLoaded
    \/ Detach
    \/ CallIsValid
    \/ CallGetPointerSize
    \/ CallGetArchitecture
    \/ CallGetLoadBias
    \/ CallGetLoadedSize
    \/ CallGetSoname
    \/ CallGetSymbolOffset
    \/ CallGetFirstSymbolOffsetWithPrefix
    \/ CallGetSymbolGotOffset

MalformedSpec == Init /\ [][MalformedNext]_vars

HashInit == ViewInit /\ HashStart

HashNext == HashRound

HashSpec == HashInit /\ [][HashNext]_vars

(***************************************************************************)
(* Properties of the view.                                                 *)
(***************************************************************************)
\* the attached range
File == RangeOf[mMemory]

\* the view holds a range and a descriptor filled from that range alone
Attached == mElfInfo # NullInfo /\ File.size # 0 /\ ~mElfInfo.ub

KnownClass == mElfInfo.elfClass \in {kElf32, kElf64}

ClassOf(info) == IF info = NullInfo THEN kNone ELSE info.elfClass

Queries ==
    {"IsValid", "GetPointerSize", "GetArchitecture", "GetLoadBias", "GetLoadedSize",
     "GetSoname", "GetSymbolOffset", "GetFirstSymbolOffsetWithPrefix", "GetSymbolGotOffset"}

\* the entries, of the first size ones of the table at syms, whose name Test accepts
Entries(file, syms, strs, size, Test(_)) ==
    IF syms = NULL \/ strs = NULL THEN {}
    ELSE {k \in 0..(size - 1) :
            SymReadable(file, syms, strs, k) /\ Test(SymName(file, syms, strs, k))}

\* st_value of entry k of the table at syms, less the load bias
BiasedValue(file, info, syms, k) ==
    U64Sub(U64(SymAt(At(file, syms).val, k).st_value), info.loadBias)

\* the first size records of the relocation table at table
Records(file, table, size) ==
    IF table = NULL THEN << >> ELSE SubSeq(At(file, table).val, 1, size)

\* C1: IsValid() is true exactly when the attached range is non-empty and the
\* descriptor's class is Elf32 or Elf64, and a range whose class byte is
\* neither 1 nor 2 leaves the class at None and the view invalid.
C1_IsValidIffKnownClass ==
    (op = "IsValid" /\ (mElfInfo = NullInfo \/ ~mElfInfo.ub)) =>
        /\ ret.status = "ok"
        /\ ret.bool <=> (File.size # 0 /\ ClassOf(mElfInfo) \in {kElf32, kElf64})
        /\ File.class \notin {kElf32, kElf64} =>
                (ClassOf(mElfInfo) = kNone /\ ~ret.bool)

\* the value a query returns when it finds nothing
MissOf(o) ==
    CASE o = "IsValid" -> FALSE
      [] o \in {"GetPointerSize", "GetArchitecture"} -> 0
      [] o = "GetSoname" -> Empty
      [] o = "GetSymbolGotOffset" -> << >>
      [] OTHER -> U64Zero

\* the C++ type a query returns
TypeOf(o) ==
    CASE o = "IsValid" -> "bool"
      [] o \in {"GetPointerSize", "GetArchitecture"} -> "int"
      [] o = "GetSoname" -> "string"
      [] o = "GetSymbolGotOffset" -> "vector"
      [] OTHER -> "uint64"

\* C2: after Detach, every query completes and returns its miss sentinel.
C2_DetachedQueriesMiss ==
    (mElfInfo = NullInfo /\ op \in Queries) =>
        ret = Ret(TypeOf(op), Ok(MissOf(op)))

\* C3: on an attached view GetSymbolOffset returns st_value - loadBias of the
\* first hit, looking in dynsym, then symtab, then the mini-debug map: of the
\* dynsym entry for a name dynsym defines, of the first symtab entry for a
\* name dynsym lacks, of the map's entry for a name both lack; and 0 for the
\* empty name and for a name none of the three holds.
C3_SymbolOffsetOfFirstHit ==
    (op = "GetSymbolOffset" /\ Attached) =>
        LET info == mElfInfo
            Same(n) == n = arg
            dyn == IF KnownClass
                   THEN Entries(File, info.dynsym, info.dynstr, info.dynsym_size, Same)
                   ELSE {}
            def == {k \in dyn : SymAt(At(File, info.dynsym).val, k).st_shndx # 0}
            sym == IF KnownClass
                   THEN Entries(File, info.symtab, info.strtab, info.symtab_size, Same)
                   ELSE {}
            map == info.compressedDebugSymbols
        IN  /\ ret.status = "ok"
            /\ arg = Empty => ret.uint64 = U64Zero
            /\ (arg # Empty /\ def # {}) =>
                    ret.uint64 = BiasedValue(File, info, info.dynsym, SetMin(def))
            /\ (arg # Empty /\ dyn = {} /\ sym # {}) =>
                    ret.uint64 = BiasedValue(File, info, info.symtab, SetMin(sym))
            /\ (arg # Empty /\ dyn = {} /\ sym = {} /\ arg \in DOMAIN map) =>
                    ret.uint64 = U64Sub(U64(map[arg]), info.loadBias)
            /\ (arg # Empty /\ dyn = {} /\ sym = {} /\ arg \notin DOMAIN map) =>
                    ret.uint64 = U64Zero

\* foo, defined in dynsym at 0x1234 in an image loaded at 0x1000, is at 0x234
C3_Witness ==
    /\ op = "GetSymbolOffset" /\ arg = N_foo /\ Attached
    /\ mElfInfo.loadBias = U64(4096)
    /\ ret = Ret("uint64", Ok(U64(564)))

\* C4: GetSymbolGotOffset returns, for the first dynsym entry that carries the
\* name, the offset of the first matching jump slot among the relplt_size
\* records at relplt, if there is one, then the offsets of all matching data
\* relocations of reladyn (use_rela) or reldyn, in table order, each less the
\* load bias; and the empty sequence when no dynsym entry carries the name.
C4_GotOffsetsInTableOrder ==
    (op = "GetSymbolGotOffset" /\ Attached /\ KnownClass /\ arg # Empty) =>
        LET info == mElfInfo
            c == info.elfClass
            Same(n) == n = arg
            idx == Entries(File, info.dynsym, info.dynstr, info.dynsym_size, Same)
            Slot(r) == r.r_sym = SetMin(idx) /\ IsJumpSlot(c, r.r_type)
            Data(r) == r.r_sym = SetMin(idx) /\ IsDataReloc(c, r.r_type)
            Off(r) == U64Sub(U64(r.r_offset), info.loadBias)
            slots == SelectSeq(Records(File, info.relplt, info.relplt_size), Slot)
            data == IF info.use_rela
                    THEN SelectSeq(Records(File, info.reladyn, info.reladyn_size), Data)
                    ELSE SelectSeq(Records(File, info.reldyn, info.reldyn_size), Data)
            first == IF slots = << >> THEN << >> ELSE << Off(slots[1]) >>
            rest == [k \in 1..Len(data) |-> Off(data[k])]
        IN  /\ ret.status = "ok"
            /\ idx = {} => ret.vector = << >>
            /\ idx # {} => ret.vector = first \o rest

\* malloc, with a jump slot at 0x3008 and a GLOB_DAT at 0x4010 in an Elf32
\* image loaded at 0x1000
C4_Witness ==
    /\ op = "GetSymbolGotOffset" /\ arg = N_malloc /\ Attached
    /\ mElfInfo.elfClass = kElf32 /\ mElfInfo.loadBias = U64(4096)
    /\ ret = Ret("vector", Ok(<< U64(8200), U64(12304) >>))

\* the undefined symbols of the view's dynsym that carry the name
ImportsNamed(symbol) ==
    LET Same(n) == n = symbol
    IN  {k \in Entries(File, mElfInfo.dynsym, mElfInfo.dynstr, mElfInfo.dynsym_size, Same) :
            SymAt(At(File, mElfInfo.dynsym).val, k).st_shndx = 0}

\* the records of the object's JMPREL table that are jump slots of symbol k
JumpSlotsOf(p, k) ==
    LET jmprel == RelPltTable(p.class, p.bias, p.variant)
    IN  {n \in 1..Len(jmprel) :
            jmprel[n].r_sym = k /\ jmprel[n].r_type = JumpSlotOf(p.class)}

\* whether GetSymbolGotOffset returned the offset of record n of JMPREL
Reported(p, n) ==
    /\ ret.status = "ok"
    /\ \E m \in 1..Len(ret.vector) :
            ret.vector[m] = U64Sub(U64(RelPltTable(p.class, p.bias, p.variant)[n].r_offset),
                                mElfInfo.loadBias)

\* C5 as stated: every jump slot of JMPREL that refers to an import U has
\* its r_offset - loadBias among the elements of GetSymbolGotOffset(U).
C5_EveryJumpSlotReported ==
    (op = "GetSymbolGotOffset" /\ Attached /\ KnownClass /\ mMemory.tag = "so") =>
        \A k \in ImportsNamed(arg) :
            \A n \in JumpSlotsOf(mMemory.p, k) : Reported(mMemory.p, n)

\* C5: the first jump slot of JMPREL that refers to an import U has its
\* r_offset - loadBias among the elements of GetSymbolGotOffset(U).
C5_FirstJumpSlotReported ==
    (op = "GetSymbolGotOffset" /\ Attached /\ KnownClass /\ mMemory.tag = "so") =>
        \A k \in ImportsNamed(arg) :
            JumpSlotsOf(mMemory.p, k) # {} =>
                Reported(mMemory.p, SetMin(JumpSlotsOf(mMemory.p, k)))

\* malloc in an image whose JMPREL holds two jump slots for it
C5_Witness ==
    /\ op = "GetSymbolGotOffset" /\ arg = N_malloc /\ Attached
    /\ mMemory.tag = "so" /\ mMemory.p.variant = "dupslot"
    /\ Cardinality(JumpSlotsOf(mMemory.p, 1)) = 2
    /\ ret.status = "ok" /\ ret.vector[1] = U64(8200)

\* whether GetSymbolOffset finds, for some name the prefix begins, an offset
\* other than 0
SomeNameResolves(prefix) ==
    \E S \in QueryNames :
        /\ IsPrefix(prefix, S)
        /\ \E o \in GetSymbolOffset(File, mElfInfo, S) :
                o.status = "ok" /\ o.val # U64Zero

\* C6 as stated: if GetSymbolOffset(S) is not 0 and P is a prefix of S, then
\* GetFirstSymbolOffsetWithPrefix(P) is not 0.
C6_PrefixMonotonic ==
    (op = "GetFirstSymbolOffsetWithPrefix" /\ Attached /\ SomeNameResolves(arg)) =>
        (ret.status = "ok" /\ ret.uint64 # U64Zero)

\* C6: if GetSymbolOffset(S) is not 0 and P is a non-empty prefix of S, then
\* GetFirstSymbolOffsetWithPrefix(P) is st_value - loadBias of the first
\* symbol whose name begins with P, in dynsym, else in symtab, else of such a
\* symbol of the mini-debug map.
C6_PrefixFirstMatch ==
    (/\ op = "GetFirstSymbolOffsetWithPrefix" /\ Attached
     /\ arg # Empty /\ SomeNameResolves(arg)) =>
        LET info == mElfInfo
            Begins(n) == IsPrefix(arg, n)
            dyn == Entries(File, info.dynsym, info.dynstr, info.dynsym_size, Begins)
            sym == Entries(File, info.symtab, info.strtab, info.symtab_size, Begins)
            map == info.compressedDebugSymbols
        IN  /\ ret.status = "ok"
            /\ dyn # {} => ret.uint64 = BiasedValue(File, info, info.dynsym, SetMin(dyn))
            /\ (dyn = {} /\ sym # {}) =>
                    ret.uint64 = BiasedValue(File, info, info.symtab, SetMin(sym))
            /\ (dyn = {} /\ sym = {}) =>
                    \E key \in DOMAIN map :
                        /\ IsPrefix(arg, key)
                        /\ ret.uint64 = U64Sub(U64(map[key]), info.loadBias)

\* the prefix _Z3f of _Z3foo, which GetSymbolOffset resolves
C6_Witness ==
    /\ op = "GetFirstSymbolOffsetWithPrefix" /\ arg = N_Z3f /\ Attached
    /\ Ok(U64(1280)) \in GetSymbolOffset(File, mElfInfo, N_Z3foo)
    /\ ret = Ret("uint64", Ok(U64(1280)))

\* C7 as stated: elf_sysv_hash("printf") = 0x077905A6 and
\* elf_gnu_hash("printf") = 0x156B0099; the empty name hashes to 0 and 5381.
C7_HashValuesAsStated ==
    i = Len(name) =>
        /\ name = N_printf => (h_sysv = U32(125371814) /\ h_gnu = U32(359334041))
        /\ name = Empty => (h_sysv = U32(0) /\ h_gnu = U32(5381))

\* C7: elf_sysv_hash("printf") = 0x077905A6 and elf_gnu_hash("printf") =
\* 0x156B2BB8; the empty name hashes to 0 and 5381.
C7_HashValues ==
    i = Len(name) =>
        /\ name = N_printf => (h_sysv = U32(125371814) /\ h_gnu = U32(359345080))
        /\ name = Empty => (h_sysv = U32(0) /\ h_gnu = U32(5381))

\* both loops have run over all of "printf"
C7_Witness == name = N_printf /\ i = Len(N_printf) /\ h_gnu = U32(359345080)

\* the names of the nested image's symbols that the outer dynsym and symtab lack
DebugOnly(p) ==
    {DebugStrTab[DebugSymTab(p.bias)[k].st_name] : k \in 2..Len(DebugSymTab(p.bias))}
    \ ({DynStr[DynSyms(p.bias)[k].st_name] : k \in 1..Len(DynSyms(p.bias))}
       \cup {StrTab[SymTab(p.bias)[k].st_name] : k \in 1..Len(SymTab(p.bias))})

\* C8: for a symbol D of the image in .gnu_debugdata that the outer dynsym
\* and symtab lack, GetSymbolOffset(D) after AttachFileMemMapping is the
\* st_value of the first entry named D of the nested symtab less the outer
\* load bias; after AttachLoadedMemoryView the map is empty and the result 0.
C8_MiniDebugOnlyInFileForm ==
    (/\ op = "GetSymbolOffset" /\ Attached /\ KnownClass
     /\ mMemory.tag = "so" /\ arg \in DebugOnly(mMemory.p)) =>
        LET inner == DebugSymTab(mMemory.p.bias)
            first == SetMin({k \in 1..Len(inner) : DebugStrTab[inner[k].st_name] = arg})
        IN  /\ ret.status = "ok"
            /\ ~mIsLoaded =>
                /\ arg \in DOMAIN mElfInfo.compressedDebugSymbols
                /\ ret.uint64 = U64Sub(U64(inner[first].st_value), mElfInfo.loadBias)
            /\ mIsLoaded =>
                /\ DOMAIN mElfInfo.compressedDebugSymbols = {}
                /\ ret.uint64 = U64Zero

\* some_debug_only_sym at 0x1abc of a file loaded at 0x1000
C8_Witness ==
    /\ op = "GetSymbolOffset" /\ arg = N_dbg /\ Attached /\ ~mIsLoaded
    /\ mMemory.tag = "so" /\ N_dbg \in DebugOnly(mMemory.p)
    /\ mElfInfo.loadBias = U64(4096)
    /\ ret = Ret("uint64", Ok(U64(2748)))

\* C9: GetSymbolOffset on an object with only the SysV hash table returns what
\* it returns on the same object with both the GNU and the SysV hash table.
C9_SysvOnlySameAsBoth ==
    (/\ op = "GetSymbolOffset" /\ Attached
     /\ mMemory.tag = "so" /\ mMemory.p.hash = "sysv") =>
        LET twin == SharedObject([mMemory.p EXCEPT !.hash = "both"])
            twinInfo == IF mIsLoaded THEN LoadedInfoOf[SpanOf(twin)]
                        ELSE FileInfoOf[SpanOf(twin)]
        IN  ret \in {Ret("uint64", o) : o \in GetSymbolOffset(twin, twinInfo, arg)}

\* C10: without searchForUndefined, a name that some dynsym entry carries is
\* found whatever the hash tables hold, because the linear scan is attempted
\* whenever the hash paths give no match.
C10_LinearScanAlwaysAttempted ==
    (op = "GetSymbolOffset" /\ Attached /\ KnownClass /\ arg # Empty) =>
        LET info == mElfInfo
            Same(n) == n = arg
            idx == Entries(File, info.dynsym, info.dynstr, info.dynsym_size, Same)
            r == GetDynamicSymbolIndexImpl(info.elfClass, File, info, arg, FALSE)
        IN  idx # {} =>
                /\ r.found
                /\ ret = Ret("uint64", Ok(BiasedValue(File, info, info.dynsym, r.index)))

\* the PT_LOAD entries among the e_phnum program headers of the attached range
LoadSegments ==
    IF File.ehdr.e_phoff = 0 THEN {}
    ELSE {phdr \in {At(File, File.ehdr.e_phoff).val[k] : k \in 1..File.ehdr.e_phnum} :
            phdr.p_type = PT_LOAD}

\* C11: after an attach of a range of a known class, loadBias is the least
\* p_vaddr of the PT_LOAD program headers and loadedSize is the greatest
\* p_vaddr + p_memsz less loadBias; with no PT_LOAD header, whether e_phoff
\* is 0 or the table holds none, loadBias is 0 and loadedSize is 0.
C11_LoadBiasIsMinVaddr ==
    (Attached /\ KnownClass) =>
        IF LoadSegments = {}
        THEN mElfInfo.loadBias = U64Zero /\ mElfInfo.loadedSize = U64Zero
        ELSE LET first == SetMin({phdr.p_vaddr : phdr \in LoadSegments})
                 last == SetMax({phdr.p_vaddr + phdr.p_memsz : phdr \in LoadSegments})
             IN  /\ mElfInfo.loadBias = U64(first)
                 /\ mElfInfo.loadedSize = U64(last - first)

\* the table pointers of a descriptor
TablePointers(info) ==
    {info.strtab, info.dynstr, info.dynsym, info.symtab, info.sysv_hash,
     info.gnu_hash, info.reldyn, info.reladyn, info.relplt, info.miniDebugInfo.ptr}

\* C12: after any attach of any range, every table pointer of the descriptor
\* (strtab, dynstr, dynsym, symtab, sysv_hash, gnu_hash, reldyn, reladyn,
\* relplt, miniDebugInfo) that is not null lies at an offset inside the
\* attached range: an offset outside it is never stored.
C12_TablePointersInsideRange ==
    (mElfInfo # NullInfo /\ File.size # 0) =>
        \A ptr \in TablePointers(mElfInfo) :
            ptr # NULL => ptr \in 0..(File.size - 1)

\* C13: every query returns after a number of steps bounded by the sizes of
\* the tables, whatever the tables hold: the walk along a GNU hash chain and
\* the walk along a SysV hash chain end even when the GNU chain carries no
\* end mark and the SysV chain cycles without reaching index 0.
C13_QueriesTerminate ==
    (op \in Queries /\ mElfInfo # NullInfo) => ret.status # "hang"

\* the section headers of the attached range, each with the name the walk
\* reads for it
NamedSections ==
    LET all == At(File, File.ehdr.e_shoff).val
        shstrtab == all[File.ehdr.e_shstrndx + 1]
        strs == IF mIsLoaded THEN shstrtab.sh_addr ELSE shstrtab.sh_offset
    IN  {[shdr |-> all[k], nm |-> StrAt(File, strs, all[k].sh_name)] :
            k \in 1..File.ehdr.e_shnum}

\* where the form of the view places a section: sh_addr in loaded form,
\* sh_offset in file form
PlaceOf(shdr) == IF mIsLoaded THEN shdr.sh_addr ELSE shdr.sh_offset

\* C14: every table the section header walk records (dynstr, strtab, dynsym,
\* symtab, the SysV hash table with its nbucket, nchain, bucket and chain
\* arrays, gnu_hash) lies at sh_offset of its section in file form and at
\* sh_addr in loaded form; in loaded form none lies at sh_offset.
C14_SectionsPlacedByForm ==
    (Attached /\ KnownClass /\ File.ehdr.e_shoff # 0) =>
        \A s \in NamedSections :
            LET at == PlaceOf(s.shdr)
                type == s.shdr.sh_type
            IN  /\ (type = SHT_STRTAB /\ s.nm = S_dynstr) => mElfInfo.dynstr = at
                /\ (type = SHT_STRTAB /\ s.nm = S_strtab) => mElfInfo.strtab = at
                /\ (type = SHT_SYMTAB /\ s.nm = S_symtab) => mElfInfo.symtab = at
                /\ type = SHT_DYNSYM => mElfInfo.dynsym = at
                /\ type = SHT_GNU_HASH => mElfInfo.gnu_hash = at
                /\ type = SHT_HASH =>
                        /\ mElfInfo.sysv_hash = at
                        /\ mElfInfo.sysv_hash_bucket = <<at, 2>>
                        /\ mElfInfo.sysv_hash_chain = <<at, 2 + mElfInfo.sysv_hash_nbucket>>

\* the descriptor of a fresh view attached only to the range the view holds,
\* in the form the view holds it in
FreshInfo == IF mIsLoaded THEN LoadedInfoOf[mMemory] ELSE FileInfoOf[mMemory]

\* the outcomes query o with argument a can have on a view that holds file
\* with descriptor info
OutcomesOn(o, file, info, a) ==
    CASE o = "IsValid" ->
            IF Tainted(info) THEN UndefinedBehaviour(BOOLEAN)
            ELSE {Ok(IsValid(file, info))}
      [] o = "GetPointerSize" ->
            IF Tainted(info) THEN UndefinedBehaviour({0, 4, 8})
            ELSE {Ok(GetPointerSize(file, info))}
      [] o = "GetArchitecture" ->
            IF Tainted(info) THEN UndefinedBehaviour({0, 40})
            ELSE {Ok(GetArchitecture(file, info))}
      [] o = "GetLoadBias" ->
            IF Tainted(info) THEN UndefinedBehaviour(SomeU64) ELSE GetLoadBias(file, info)
      [] o = "GetLoadedSize" ->
            IF Tainted(info) THEN UndefinedBehaviour(SomeU64) ELSE GetLoadedSize(file, info)
      [] o = "GetSoname" ->
            IF Tainted(info) THEN UndefinedBehaviour({Empty, N_soname})
            ELSE GetSoname(file, info)
      [] o = "GetSymbolOffset" ->
            IF Tainted(info) THEN UndefinedBehaviour(SomeU64)
            ELSE GetSymbolOffset(file, info, a)
      [] o = "GetFirstSymbolOffsetWithPrefix" ->
            IF Tainted(info) THEN UndefinedBehaviour(SomeU64)
            ELSE GetFirstSymbolOffsetWithPrefix(file, info, a)
      [] o = "GetSymbolGotOffset" ->
            IF Tainted(info) THEN UndefinedBehaviour(SomeOffsets)
            ELSE GetSymbolGotOffset(file, info, a)

\* C15: an attach discards the descriptor the view held: after any sequence
\* of attaches, in either form, the descriptor is the one a fresh view makes
\* of the last range alone in the same form, and every query has an outcome
\* it can have on that fresh view; nothing of an earlier range (soname, table
\* pointer, count, use_rela, mini-debug symbol) is left, also when the last
\* range is no valid ELF image.
C15_ReattachLikeFresh ==
    mElfInfo # NullInfo =>
        /\ mElfInfo = FreshInfo
        /\ op \in Queries =>
                ret \in Returns(TypeOf(op), OutcomesOn(op, File, FreshInfo, arg))

\* a range without the ELF magic attached to a view that held a shared object
\* with a soname: GetSoname returns the empty string
C15_Witness ==
    /\ prior = N_soname
    /\ File.tag = "badmagic"
    /\ mElfInfo = NewElfInfo
    /\ op = "GetSoname"
    /\ ret = Ret("string", Ok(Empty))

\* st_value of the record GetSymbolOffset(symbol) matches: of the dynsym
\* entry, else of the symtab entry, else of the mini-debug symbol; none when
\* nothing matches
MatchedBySymbol(file, info, symbol) ==
    LET c == info.elfClass
        dyn == GetDynamicSymbolIndexImpl(c, file, info, symbol, FALSE)
        non == GetNonDynamicSymbolImpl(c, file, info, symbol)
    IN  IF symbol = Empty \/ dyn.ub \/ dyn.hang THEN {}
        ELSE IF dyn.found THEN {SymAt(At(file, info.dynsym).val, dyn.index).st_value}
        ELSE IF non.ub THEN {}
        ELSE IF non.found THEN {SymAt(At(file, info.symtab).val, non.index).st_value}
        ELSE {info.compressedDebugSymbols[key] :
                key \in {symbol} \cap DOMAIN info.compressedDebugSymbols}

\* st_value of the records GetFirstSymbolOffsetWithPrefix(symbolPrefix) can match
MatchedByPrefix(file, info, symbolPrefix) ==
    LET t == GetFirstSymbolOffsetWithPrefixImpl(info.elfClass, file, info, symbolPrefix)
    IN  IF symbolPrefix = Empty \/ t.r.ub THEN {}
        ELSE IF t.r.found THEN {SymAt(At(file, t.table).val, t.r.index).st_value}
        ELSE {info.compressedDebugSymbols[key] :
                key \in {k \in DOMAIN info.compressedDebugSymbols :
                            IsPrefix(symbolPrefix, k)}}

\* C16: GetSymbolOffset and GetFirstSymbolOffsetWithPrefix return no value
\* made by unsigned 64-bit wraparound: when st_value of the matched record is
\* less than loadBias, they return 0, not (st_value - loadBias) mod 2^64.
C16_NoWrappedOffset ==
    (Attached /\ KnownClass /\ ret.status = "ok"
        /\ op \in {"GetSymbolOffset", "GetFirstSymbolOffsetWithPrefix"}) =>
        LET matched == IF op = "GetSymbolOffset"
                       THEN MatchedBySymbol(File, mElfInfo, arg)
                       ELSE MatchedByPrefix(File, mElfInfo, arg)
        IN  (matched # {} /\ \A v \in matched : U64Lt(U64(v), mElfInfo.loadBias)) =>
                ret.uint64 = U64Zero

=============================================================================
